---- MODULE Spec2Model ----
(***************************************************************************)
(* A model of mf2py's Parser (src/mf2py/parser.py): the microformats2      *)
(* record builder (handle_microformat / parse_props), the top-level walk   *)
(* (parse_el), the rel/alternate collector (parse_rels), Parser.parse and  *)
(* Parser.to_dict.                                                         *)
(*                                                                         *)
(* Python values are represented as follows.  A dict is a function with a  *)
(* finite set of string keys, a list is a sequence, a str that names a     *)
(* key, a class token, a tag or a rel token is a string.  A property       *)
(* value is a tagged union in the source (a scalar or a nested record);    *)
(* scalars are records here, so that both variants can be told apart:      *)
(* [text |-> ..] for plain text, [url |-> ..] for a resolved URL,          *)
(* [time |-> ..] with an optional date field for a datetime and            *)
(* [html |-> .., plain |-> ..] for embedded markup.  A date is a triple    *)
(* <<year, month, day>>.  None is the empty function: TLC can compare it   *)
(* with a value of any of these shapes, and no list that the code tests    *)
(* against None is ever empty.                                             *)
(***************************************************************************)
EXTENDS Integers, Sequences, FiniteSets, TLC

VARIABLES doc, url, parsed, default_date, trace, nparses, ret

vars == <<doc, url, parsed, default_date, trace, nparses, ret>>

None == <<>>

-----------------------------------------------------------------------------
(* Bounds *)

MaxNodes == 3
MaxDateNodes == 4
MaxRelNodes == 3
MaxParses == 2

-----------------------------------------------------------------------------
(* The DOM.  Nodes are numbered 1..n in document order (depth-first, parent *)
(* before child); node 0 is the document object itself.                     *)

Tok(p, nm) == [prefix |-> p, name |-> nm]

NoAttrs == [tag |-> "div", class |-> <<>>, rel |-> None, href |-> None,
            src |-> None, type |-> None, media |-> None, hreflang |-> None,
            shape |-> None, coords |-> None, date |-> None]

Kinds ==
  [ div       |-> NoAttrs,
    card      |-> [NoAttrs EXCEPT !.class = <<Tok("h", "card")>>],
    pe_two    |-> [NoAttrs EXCEPT !.class = <<Tok("p", "name"), Tok("p", "nickname"),
                                            Tok("e", "content"), Tok("e", "summary")>>],
    pp_card   |-> [NoAttrs EXCEPT !.class = <<Tok("p", "author"), Tok("h", "card"),
                                            Tok("h", "entry"), Tok("p", "name")>>],
    u_url     |-> [NoAttrs EXCEPT !.tag = "a", !.class = <<Tok("u", "url")>>, !.href = "/me"],
    img       |-> [NoAttrs EXCEPT !.tag = "img", !.src = "/me.png"],
    dt_date   |-> [NoAttrs EXCEPT !.class = <<Tok("dt", "start")>>, !.date = <<2014, 1, 1>>],
    dt_time   |-> [NoAttrs EXCEPT !.class = <<Tok("dt", "end")>>],
    dt_event  |-> [NoAttrs EXCEPT !.class = <<Tok("dt", "start"), Tok("h", "event")>>,
                                  !.date = <<2015, 2, 2>>],
    a_me      |-> [NoAttrs EXCEPT !.tag = "a", !.rel = <<"me">>, !.href = "/me"],
    a_two     |-> [NoAttrs EXCEPT !.tag = "a", !.rel = <<"me", "author">>, !.href = "/me"],
    link_alt  |-> [NoAttrs EXCEPT !.tag = "link", !.rel = <<"alternate">>, !.href = "/feed",
                                  !.type = "application/rss+xml"],
    a_alt     |-> [NoAttrs EXCEPT !.tag = "a", !.rel = <<"home", "alternate", "me">>,
                                  !.href = "/fr"],
    div_rel   |-> [NoAttrs EXCEPT !.rel = <<"me">>, !.href = "/no"] ]

TreeKinds == {"card", "pe_two", "pp_card", "u_url", "img"}
DateKinds == {"div", "card", "dt_date", "dt_time", "dt_event"}
RelKinds  == {"div", "a_me", "a_two", "link_alt", "a_alt", "div_rel"}

RECURSIVE Ancestors(_, _)
Ancestors(parent, i) ==
  IF i = 0 THEN {} ELSE {parent[i]} \cup Ancestors(parent, parent[i])

\* Every ordered tree of n nodes, each once: node i+1 is a child of node i
\* or of one of node i's ancestors.
Shapes(n) ==
  {p \in [1..n -> 0..(n - 1)] :
     /\ p[1] = 0
     /\ \A i \in 1..(n - 1) : p[i + 1] \in {i} \cup Ancestors(p, i)}

Docs(kinds, maxn) ==
  UNION {[n : {n}, parent : Shapes(n), kind : [1..n -> kinds]] : n \in 1..maxn}

Urls == {"http://example.com"}

\* The element's attributes; the document object has none.
Attrs(el) == IF el = 0 THEN [NoAttrs EXCEPT !.tag = "[document]"] ELSE Kinds[doc.kind[el]]

\* el.find_all(True, recursive=False): the direct child elements in order
SetToSeq(S) ==
  LET RECURSIVE Asc(_, _)
      Asc(i, acc) == IF i > doc.n THEN acc
                     ELSE Asc(i + 1, IF i \in S THEN Append(acc, i) ELSE acc)
  IN Asc(1, <<>>)

Children(el) == SetToSeq({c \in 1..doc.n : doc.parent[c] = el})

\* doc.find_all(["a", "link"], attrs={'rel': True}): all matching
\* descendants in document order
RelElements ==
  SetToSeq({e \in 1..doc.n : Attrs(e).tag \in {"a", "link"} /\ None # Attrs(e).rel})

\* get_attr(el, name)
get_attr(el, name) == Attrs(el)[name]

\* el.get(name, default)
el_get(el, name, default) == IF None = Attrs(el)[name] THEN default ELSE Attrs(el)[name]

\* urljoin(base, href) for the relative references of the model
urljoin(base, href) == base \o href

\* dict.get(key, default) and d[key] = value
dict_get(d, key, default) == IF key \in DOMAIN d THEN d[key] ELSE default

dict_set(d, key, value) == (key :> value) @@ d

-----------------------------------------------------------------------------
(* mf2_classes: the classname classifier *)

Select(classes, prefix) == SelectSeq(classes, LAMBDA t : t.prefix = prefix)

mf2_root(classes) ==
  [i \in 1..Len(Select(classes, "h")) |-> "h-" \o Select(classes, "h")[i].name]

mf2_names(classes, prefix) ==
  [i \in 1..Len(Select(classes, prefix)) |-> Select(classes, prefix)[i].name]

-----------------------------------------------------------------------------
(* parse_property: the value extractors *)

\* the element's text content, stripped
parse_property_text(el) == [text |-> el]

parse_property_url(el, base_url) == [url |-> urljoin(base_url, el_get(el, "href", ""))]

\* returns <<value, new_date>>: an element with a full date yields it as
\* the new date; a time-only element is completed by the default date
parse_property_datetime(el, dflt) ==
  IF None # Attrs(el).date
  THEN <<[date |-> Attrs(el).date], Attrs(el).date>>
  ELSE IF None # dflt
       THEN <<[date |-> dflt, time |-> el], None>>
       ELSE <<[time |-> el], None>>

parse_property_embedded(el) == [html |-> el, plain |-> el]

-----------------------------------------------------------------------------
(* implied_properties *)

\* the element itself, or its only child when it has exactly one, carries
\* the attribute
ImpliedAttr(el, tags, name) ==
  IF Attrs(el).tag \in tags /\ None # Attrs(el)[name]
  THEN Attrs(el)[name]
  ELSE IF /\ Len(Children(el)) = 1
          /\ Attrs(Children(el)[1]).tag \in tags
          /\ None # Attrs(Children(el)[1])[name]
       THEN Attrs(Children(el)[1])[name]
       ELSE None

\* falls back to the element's text content: always a value
implied_name(el) == <<[text |-> el]>>

implied_photo(el, base_url) ==
  IF None # ImpliedAttr(el, {"img", "object"}, "src")
  THEN <<[url |-> urljoin(base_url, ImpliedAttr(el, {"img", "object"}, "src"))]>>
  ELSE None

implied_url(el, base_url) ==
  IF None # ImpliedAttr(el, {"a", "area"}, "href")
  THEN <<[url |-> urljoin(base_url, ImpliedAttr(el, {"a", "area"}, "href"))]>>
  ELSE None

-----------------------------------------------------------------------------
(* Parser.parse: the nested functions.  The state they share through self  *)
(* is threaded as st: default_date is self._default_date; calls, dts,      *)
(* extracts and stack record what ran (the handle_microformat calls, the   *)
(* datetime extractions, all scalar extractions, and the ids of the        *)
(* handle_microformat calls that have not returned yet).                   *)

\* Body applied to value, with value computed once
With(value, Body(_)) == CHOOSE result \in {Body(v) : v \in {value}} : TRUE

InitialScan ==
  [default_date |-> None, calls |-> <<>>, dts |-> <<>>, extracts |-> <<>>,
   stack |-> <<>>]

\* the handle_microformat call whose scan is running, 0 at top level
Current(st) == IF st.stack = <<>> THEN 0 ELSE st.stack[Len(st.stack)]

\* properties.get(key, []) extended by the new values, for every new key
merge_props(properties, child_props) ==
  [key \in DOMAIN properties \cup DOMAIN child_props |->
     dict_get(properties, key, <<>>) \o dict_get(child_props, key, <<>>)]

\* the extractor of one category, run for el; self._default_date is read
\* and updated by the datetime category only
extract_value(cat, el, st) ==
  LET logged == [st EXCEPT !.extracts =
                    Append(@, [el |-> el, cat |-> cat, call |-> Current(st)])]
  IN CASE cat = "p" -> [value |-> parse_property_text(el), st |-> logged]
       [] cat = "u" -> [value |-> parse_property_url(el, url), st |-> logged]
       [] cat = "e" -> [value |-> parse_property_embedded(el), st |-> logged]
       [] cat = "dt" ->
            LET r == parse_property_datetime(el, st.default_date)
            IN [value |-> r[1],
                st |-> [logged EXCEPT
                   !.default_date = IF None # r[2] THEN r[2] ELSE @,
                   !.dts = Append(@, [el |-> el, call |-> Current(st),
                                      dflt |-> st.default_date,
                                      new_date |-> r[2]])]]

\* the value parsed anew for every property name
lazy_value_always(cat, el, value, st) == extract_value(cat, el, st)

\* if value has not been parsed then parse it
lazy_value(cat, el, value, st) ==
  IF None = value THEN extract_value(cat, el, st)
  ELSE [value |-> value, st |-> st]

\* the implied name set whether or not a name was found
implied_props_overriding(properties, el) ==
  LET p1 == dict_set(properties, "name", implied_name(el))
      p2 == IF "photo" \notin DOMAIN p1 /\ None # implied_photo(el, url)
            THEN dict_set(p1, "photo", implied_photo(el, url))
            ELSE p1
  IN IF "url" \notin DOMAIN p2 /\ None # implied_url(el, url)
     THEN dict_set(p2, "url", implied_url(el, url))
     ELSE p2

\* if some properties not already found find in implied ways
implied_props(properties, el) ==
  LET p1 == IF "name" \notin DOMAIN properties
            THEN dict_set(properties, "name", implied_name(el))
            ELSE properties
      p2 == IF "photo" \notin DOMAIN p1 /\ None # implied_photo(el, url)
            THEN dict_set(p1, "photo", implied_photo(el, url))
            ELSE p1
  IN IF "url" \notin DOMAIN p2 /\ None # implied_url(el, url)
     THEN dict_set(p2, "url", implied_url(el, url))
     ELSE p2

\* build microformat with type and properties; insert children if any;
\* attach the simple value if there is one
build_microformat(root_class_names, el, properties, children, simple_value) ==
  LET m0 == [type |-> root_class_names, properties |-> properties]
      m1 == IF Attrs(el).tag = "area" /\ None # get_attr(el, "shape")
            THEN dict_set(m0, "shape", get_attr(el, "shape")) ELSE m0
      m2 == IF Attrs(el).tag = "area" /\ None # get_attr(el, "coords")
            THEN dict_set(m1, "coords", get_attr(el, "coords")) ELSE m1
      m3 == IF children # <<>> THEN dict_set(m2, "children", children) ELSE m2
  IN IF None # simple_value THEN dict_set(m3, "value", simple_value) ELSE m3

\* every h-* microformat taken as a child, property element or not
is_bare_child_any(is_property_el, root_class_names) == root_class_names # <<>>

\* not a property element, but a h-* microformat: one of our children
is_bare_child(is_property_el, root_class_names) ==
  ~is_property_el /\ root_class_names # <<>>

\* child tags parsed below a microformat root-class too
descends_always(root_class_names) == TRUE

\* parse child tags, provided this isn't a microformat root-class
descends(root_class_names) == root_class_names = <<>>

RECURSIVE handle_microformat(_, _, _, _), parse_props(_, _),
          scan_children(_, _, _), prop_loop(_, _, _, _, _, _),
          category_loops(_, _, _, _)

\* for child in el.find_all(True, recursive=False): parse_props(child) and
\* merge what it returns into found = [props, children, st]
scan_children(els, i, found) ==
  IF i > Len(els) THEN found
  ELSE With(found, LAMBDA acc :
       With(parse_props(els[i], acc.st), LAMBDA r :
         scan_children(els, i + 1,
           [props |-> merge_props(acc.props, r.props),
            children |-> acc.children \o r.children,
            st |-> r.st])))

handle_microformat(root_class_names, el, simple_value, st) ==
  With([st EXCEPT
          !.default_date = None,
          !.calls = Append(@, [el |-> el, caller |-> Current(st),
                               as_value |-> None # simple_value]),
          !.stack = Append(@, Len(st.calls) + 1)], LAMBDA entered :
  With(scan_children(Children(el), 1,
         [props |-> <<>>, children |-> <<>>, st |-> entered]), LAMBDA scan :
    [mf |-> build_microformat(root_class_names, el,
                              implied_props(scan.props, el),
                              scan.children, simple_value),
     st |-> [scan.st EXCEPT !.stack = SubSeq(@, 1, Len(@) - 1)]]))

\* for prop_name in names: one of the four property loops, for category
\* cat; found = [props, value, is_property_el, st]
prop_loop(cat, names, i, el, root_class_names, found) ==
  IF i > Len(names) THEN found
  ELSE With(found, LAMBDA acc :
       With(lazy_value(cat, el, acc.value, acc.st), LAMBDA v :
       With(dict_get(acc.props, names[i], <<>>), LAMBDA prop_value :
         IF root_class_names # <<>>
         THEN With(handle_microformat(root_class_names, el, v.value, v.st),
                LAMBDA hm :
                  prop_loop(cat, names, i + 1, el, root_class_names,
                    [props |-> dict_set(acc.props, names[i],
                                        Append(prop_value, hm.mf)),
                     value |-> v.value, is_property_el |-> TRUE,
                     st |-> hm.st]))
         ELSE prop_loop(cat, names, i + 1, el, root_class_names,
                [props |-> dict_set(acc.props, names[i],
                                    Append(prop_value, v.value)),
                 value |-> v.value, is_property_el |-> TRUE,
                 st |-> v.st]))))

\* the p-*, u-*, dt-* and e-* loops one after the other, each starting
\* with no value parsed
category_loops(i, el, root_class_names, found) ==
  IF i > 4 THEN found
  ELSE With(prop_loop(<<"p", "u", "dt", "e">>[i],
                      mf2_names(el_get(el, "class", <<>>),
                                <<"p", "u", "dt", "e">>[i]),
                      1, el, root_class_names,
                      [found EXCEPT !.value = None]),
            LAMBDA acc : category_loops(i + 1, el, root_class_names, acc))

parse_props(el, st) ==
  With(mf2_root(el_get(el, "class", <<>>)), LAMBDA root_class_names :
  With(category_loops(1, el, root_class_names,
         [props |-> <<>>, value |-> None, is_property_el |-> FALSE,
          st |-> st]), LAMBDA own :
  With(IF is_bare_child(own.is_property_el, root_class_names)
       THEN With(handle_microformat(root_class_names, el, None, own.st),
              LAMBDA hm : [children |-> <<hm.mf>>, st |-> hm.st])
       ELSE [children |-> <<>>, st |-> own.st], LAMBDA bare :
    IF descends(root_class_names)
    THEN scan_children(Children(el), 1,
           [props |-> own.props, children |-> bare.children, st |-> bare.st])
    ELSE [props |-> own.props, children |-> bare.children, st |-> bare.st])))

\* parse_rels that files an alternate element under its rel tokens as well
parse_rels_both(el, stored) ==
  With(stored, LAMBDA p :
  LET rel_attrs == get_attr(el, "rel")
      href == urljoin(url, el_get(el, "href", ""))
      RECURSIVE Local(_, _)
      Local(i, rels) ==
        IF i > Len(rel_attrs) THEN rels
        ELSE Local(i + 1, dict_set(rels, rel_attrs[i],
                            Append(dict_get(rels, rel_attrs[i], <<>>), href)))
      rest == SelectSeq(rel_attrs, LAMBDA r : r # "alternate")
      RECURSIVE Join(_)
      Join(i) == IF i > Len(rest) THEN ""
                 ELSE IF i = Len(rest) THEN rest[i]
                 ELSE rest[i] \o " " \o Join(i + 1)
      Attr(d, key, value) == IF None # value THEN dict_set(d, key, value) ELSE d
      a0 == [url |-> href]
      a1 == IF Join(1) # "" THEN dict_set(a0, "rel", Join(1)) ELSE a0
      a2 == Attr(a1, "media", get_attr(el, "media"))
      a3 == Attr(a2, "hreflang", get_attr(el, "hreflang"))
      a4 == Attr(a3, "type", get_attr(el, "type"))
  IN IF None = rel_attrs THEN p
     ELSE IF \A i \in 1..Len(rel_attrs) : rel_attrs[i] # "alternate"
          THEN [p EXCEPT !.rels = Local(1, @)]
          ELSE dict_set([p EXCEPT !.rels = Local(1, @)], "alternates",
                        Append(dict_get(p, "alternates", <<>>), a4)))

\* Parse an element for rel microformats; stored is self.__parsed__
parse_rels(el, stored) ==
  With(stored, LAMBDA p :
  LET rel_attrs == get_attr(el, "rel")
      href == urljoin(url, el_get(el, "href", ""))
      RECURSIVE Local(_, _)
      Local(i, rels) ==
        IF i > Len(rel_attrs) THEN rels
        ELSE Local(i + 1, dict_set(rels, rel_attrs[i],
                            Append(dict_get(rels, rel_attrs[i], <<>>), href)))
      rest == SelectSeq(rel_attrs, LAMBDA r : r # "alternate")
      RECURSIVE Join(_)
      Join(i) == IF i > Len(rest) THEN ""
                 ELSE IF i = Len(rest) THEN rest[i]
                 ELSE rest[i] \o " " \o Join(i + 1)
      Attr(d, key, value) == IF None # value THEN dict_set(d, key, value) ELSE d
      a0 == [url |-> href]
      a1 == IF Join(1) # "" THEN dict_set(a0, "rel", Join(1)) ELSE a0
      a2 == Attr(a1, "media", get_attr(el, "media"))
      a3 == Attr(a2, "hreflang", get_attr(el, "hreflang"))
      a4 == Attr(a3, "type", get_attr(el, "type"))
  IN IF None = rel_attrs THEN p
     ELSE IF \A i \in 1..Len(rel_attrs) : rel_attrs[i] # "alternate"
          THEN [p EXCEPT !.rels = Local(1, @)]
          ELSE dict_set(p, "alternates",
                        Append(dict_get(p, "alternates", <<>>), a4)))

RECURSIVE parse_el(_, _, _, _), parse_el_children(_, _, _)

\* for child in el.find_all(True, recursive=False): parse_el(child, ctx)
parse_el_children(els, i, found) ==
  IF i > Len(els) THEN found
  ELSE With(found, LAMBDA acc :
       With(parse_el(els[i], acc.ctx, FALSE, acc.st), LAMBDA r :
         parse_el_children(els, i + 1, r)))

\* parse_el that goes on into the children of a root element
parse_el_descending(el, ctx, top_level, st) ==
  With(mf2_root(el_get(el, "class", <<>>)), LAMBDA potential_microformats :
    IF potential_microformats # <<>>
    THEN With(handle_microformat(potential_microformats, el, None, st),
           LAMBDA hm : parse_el_children(Children(el), 1,
                         [ctx |-> Append(ctx, hm.mf), st |-> hm.st]))
    ELSE parse_el_children(Children(el), 1, [ctx |-> ctx, st |-> st]))

\* Parse an element for microformats
parse_el(el, ctx, top_level, st) ==
  With(mf2_root(el_get(el, "class", <<>>)), LAMBDA potential_microformats :
    IF potential_microformats # <<>>
    THEN With(handle_microformat(potential_microformats, el, None, st),
           LAMBDA hm : [ctx |-> Append(ctx, hm.mf), st |-> hm.st])
    ELSE parse_el_children(Children(el), 1, [ctx |-> ctx, st |-> st]))

\* for el in find_all(["a", "link"], attrs={'rel': True}): parse_rels(el)
RECURSIVE rel_loop(_, _, _)
rel_loop(els, i, stored) ==
  IF i > Len(els) THEN stored
  ELSE With(parse_rels(els[i], stored), LAMBDA p : rel_loop(els, i + 1, p))

\* Parser.parse on the stored result: the new self.__parsed__ and the
\* scan state it ends in
parse(stored) ==
  With(parse_el(0, <<>>, TRUE, InitialScan), LAMBDA walk :
    [parsed |-> rel_loop(RelElements, 1, [stored EXCEPT !.items = walk.ctx]),
     st |-> walk.st])

\* to_dict that returns every item whatever the filter
to_dict_unfiltered(filter_by_type) ==
  IF None = filter_by_type THEN parsed ELSE parsed.items

\* Parser.to_dict
to_dict(filter_by_type) ==
  IF None = filter_by_type THEN parsed
  ELSE SelectSeq(parsed.items,
         LAMBDA x : \E i \in 1..Len(x.type) : x.type[i] = filter_by_type)

-----------------------------------------------------------------------------
(* The Parser as a state machine *)

FilterTypes == <<None, "h-entry">>

NotCalled == [called |-> FALSE]

\* Parser.__init__ with a document and a url: the result starts empty and
\* the document is parsed
Constructed(docs) ==
  /\ doc \in docs
  /\ url \in Urls
  /\ \E r \in {parse([items |-> <<>>, rels |-> <<>>])} :
       /\ parsed = r.parsed
       /\ default_date = r.st.default_date
       /\ trace = r.st
  /\ nparses = 1
  /\ ret = NotCalled

Init == Constructed(Docs(TreeKinds, MaxNodes))

InitDate == Constructed(Docs(DateKinds, MaxDateNodes))

InitRel == Constructed(Docs(RelKinds, MaxRelNodes))

\* a further call of Parser.parse()
Parse ==
  /\ nparses < MaxParses
  /\ \E r \in {parse(parsed)} :
       /\ parsed' = r.parsed
       /\ default_date' = r.st.default_date
       /\ trace' = r.st
  /\ nparses' = nparses + 1
  /\ UNCHANGED <<doc, url, ret>>

\* Parser.to_dict(filter_by_type)
ToDict ==
  /\ \E i \in 1..Len(FilterTypes) :
       ret' = IF None = FilterTypes[i]
              THEN [called |-> TRUE, dict |-> to_dict(FilterTypes[i])]
              ELSE [called |-> TRUE, filter |-> FilterTypes[i],
                    list |-> to_dict(FilterTypes[i])]
  /\ UNCHANGED <<doc, url, parsed, default_date, trace, nparses>>

Next == Parse \/ ToDict

Spec == Init /\ [][Next]_vars

SpecDate == InitDate /\ [][Next]_vars

SpecRel == InitRel /\ [][Next]_vars

-----------------------------------------------------------------------------
(* What the document says, independently of the parser *)

IsRoot(e) == e # 0 /\ mf2_root(Attrs(e).class) # <<>>

\* e lies below r with no record root strictly between them
InScope(r, e) ==
  /\ e # 0
  /\ r \in Ancestors(doc.parent, e)
  /\ \A a \in Ancestors(doc.parent, e) :
       (a # 0 /\ r \in Ancestors(doc.parent, a)) => ~IsRoot(a)

ScopeSeq(r) == SetToSeq({e \in 1..doc.n : InScope(r, e)})

\* the maximal root-classname elements in document order
MaximalRoots == SetToSeq({e \in 1..doc.n : IsRoot(e) /\ InScope(0, e)})

Categories == <<"p", "u", "dt", "e">>

\* the property declarations of e: one per class token, by category
Decls(e) ==
  LET D(cat) == [i \in 1..Len(mf2_names(Attrs(e).class, cat)) |->
                   [el |-> e, cat |-> cat, name |-> mf2_names(Attrs(e).class, cat)[i]]]
  IN D("p") \o D("u") \o D("dt") \o D("e")

RECURSIVE Flatten(_, _)
Flatten(els, i) == IF i > Len(els) THEN <<>> ELSE Decls(els[i]) \o Flatten(els, i + 1)

\* the declarations made in the scope of r, in document order
ScopeDecls(r) == Flatten(ScopeSeq(r), 1)

\* those of decls that declare property key
Named(decls, key) == SelectSeq(decls, LAMBDA d : d.name = key)

\* the property names declared in decls
KeysOf(decls) == {decls[i].name : i \in 1..Len(decls)}

ImpliedKeys == {"name", "photo", "url"}

\* the declarations of property key made in the scope of r, in document order
DeclsOf(r, key) == Named(ScopeDecls(r), key)

\* the roots in the scope of r that declare no property
BareRoots(r) == SelectSeq(ScopeSeq(r), LAMBDA e : IsRoot(e) /\ Decls(e) = <<>>)

IndexOf(seq, x) == CHOOSE i \in 1..Len(seq) : seq[i] = x

\* the record the parser holds for root element r: the top-level item, or
\* what handle_microformat builds for a nested root
RecordOf(r) ==
  IF InScope(0, r) THEN parsed.items[IndexOf(MaximalRoots, r)]
  ELSE handle_microformat(mf2_root(Attrs(r).class), r, None, InitialScan).mf

Roots == {e \in 1..doc.n : IsRoot(e)}

IsRecord(v) == "type" \in DOMAIN v

ChildrenOf(m) == dict_get(m, "children", <<>>)

Implied(r, key) ==
  CASE key = "name" -> implied_name(r)
    [] key = "photo" -> implied_photo(r, url)
    [] key = "url" -> implied_url(r, url)
    [] OTHER -> None

Count(seq, Test(_)) == Len(SelectSeq(seq, Test))

-----------------------------------------------------------------------------
\* C1: after a parse, items holds exactly one record per maximal
\* root-classname element, in document order: the top-level calls of
\* handle_microformat are for those elements, in that order, and item i is
\* the record built for the i-th of them, with its root classnames.
ItemsAreMaximalRoots ==
    LET top == SelectSeq(trace.calls, LAMBDA c : c.caller = 0)
    IN /\ Len(parsed.items) = Len(MaximalRoots)
       /\ Len(top) = Len(MaximalRoots)
       /\ \A i \in 1..Len(MaximalRoots) :
            /\ top[i].el = MaximalRoots[i]
            /\ parsed.items[i].type = mf2_root(Attrs(MaximalRoots[i]).class)
            /\ parsed.items[i] =
                 handle_microformat(mf2_root(Attrs(MaximalRoots[i]).class),
                                    MaximalRoots[i], None, InitialScan).mf

\* a document with two top-level roots, one of which contains a root
ItemsWitness ==
  /\ Len(parsed.items) >= 2
  /\ \E e \in Roots : ~InScope(0, e)


\* the sum of f[i] over a sequence of numbers
RECURSIVE Sum(_, _)
Sum(f, i) == IF i > Len(f) THEN 0 ELSE f[i] + Sum(f, i + 1)

\* how many values the scope of r declares for key
Declared(r, key) == Len(DeclsOf(r, key))

\* C4: a root element E inside record R stops the scan of R: the
\* properties of R hold, for each key, exactly as many values as the
\* elements in R's scope (not past a nested root) declare, a key nobody in
\* scope declares is absent unless it is implied, every plain-text value of
\* R comes from an element in R's scope, and the children of R are exactly
\* the roots in R's scope that declare no property.
RecordBoundary ==
    \A r \in Roots :
      LET m == RecordOf(r)
          decls == ScopeDecls(r)
          bare == BareRoots(r)
      IN /\ \A key \in KeysOf(decls) \cup DOMAIN m.properties :
              LET declared == Len(Named(decls, key))
              IN IF declared > 0
                 THEN /\ key \in DOMAIN m.properties
                      /\ Len(m.properties[key]) = declared
                 ELSE m.properties[key] = Implied(r, key)
         /\ \A key \in DOMAIN m.properties :
              \A i \in 1..Len(m.properties[key]) :
                LET v == IF IsRecord(m.properties[key][i])
                         THEN m.properties[key][i].value
                         ELSE m.properties[key][i]
                IN "text" \in DOMAIN v => (v.text = r \/ InScope(r, v.text))
         /\ Len(ChildrenOf(m)) = Len(bare)
         /\ \A i \in 1..Len(bare) :
              ChildrenOf(m)[i].type = mf2_root(Attrs(bare[i]).class)

\* a record that contains a root whose own descendant declares a property
\* or is a root
RecordBoundaryWitness ==
  /\ \E r \in Roots : \E e \in Roots : \E d \in 1..doc.n :
       /\ InScope(r, e)
       /\ InScope(e, d)
       /\ (Decls(d) # <<>> \/ IsRoot(d))

\* C7: a root element in the scope of R that declares no property yields
\* one record in R's children and none in its properties; one that declares
\* properties yields a record at each of its keys and none in children.  A
\* record has a value field iff it was built as a property value, and the
\* value is then the element's scalar of the declaring category; children
\* and top-level items have none.
PlacementAndValue ==
    /\ \A i \in 1..Len(parsed.items) : "value" \notin DOMAIN parsed.items[i]
    /\ \A r \in Roots :
         LET m == RecordOf(r)
             decls == ScopeDecls(r)
             bare == BareRoots(r)
         IN /\ Len(ChildrenOf(m)) = Len(bare)
            /\ \A i \in 1..Len(ChildrenOf(m)) :
                 /\ IsRecord(ChildrenOf(m)[i])
                 /\ "value" \notin DOMAIN ChildrenOf(m)[i]
                 /\ ChildrenOf(m)[i].type = mf2_root(Attrs(bare[i]).class)
            /\ \A key \in KeysOf(decls) :
                 LET ds == Named(decls, key)
                 IN
                   /\ key \in DOMAIN m.properties
                   /\ Len(m.properties[key]) = Len(ds)
                   /\ \A i \in 1..Len(ds) :
                        LET d == ds[i]
                            v == m.properties[key][i]
                        IN IF IsRoot(d.el)
                           THEN /\ IsRecord(v)
                                /\ v.type = mf2_root(Attrs(d.el).class)
                                /\ "value" \in DOMAIN v
                                /\ CASE d.cat = "p" -> v.value = parse_property_text(d.el)
                                     [] d.cat = "u" -> v.value = parse_property_url(d.el, url)
                                     [] d.cat = "e" -> v.value = parse_property_embedded(d.el)
                                     [] d.cat = "dt" -> "date" \in DOMAIN v.value
                                                         \/ "time" \in DOMAIN v.value
                           ELSE ~IsRecord(v)

\* a record with a bare child record and a record-valued property
PlacementWitness ==
  /\ \E r \in Roots :
       /\ ChildrenOf(RecordOf(r)) # <<>>
       /\ \E key \in DOMAIN RecordOf(r).properties :
            \E i \in 1..Len(RecordOf(r).properties[key]) :
              /\ IsRecord(RecordOf(r).properties[key][i])
              /\ "value" \in DOMAIN RecordOf(r).properties[key][i]


\* no scalar is extracted twice for the same element and category during
\* one scan
ExtractedOnce ==
  \A i, j \in 1..Len(trace.extracts) :
    i # j => trace.extracts[i] # trace.extracts[j]

\* the values an element contributes under two names of one category are
\* equal
SameValueAtKeys ==
  \A r \in Roots :
    LET m == RecordOf(r)
        decls == ScopeDecls(r)
    IN \A k1, k2 \in KeysOf(decls) :
         LET d1 == Named(decls, k1)
             d2 == Named(decls, k2)
         IN \A i \in 1..Len(d1) : \A j \in 1..Len(d2) :
              (d1[i].el = d2[j].el /\ d1[i].cat = d2[j].cat)
              => /\ k1 \in DOMAIN m.properties /\ k2 \in DOMAIN m.properties
                 /\ Len(m.properties[k1]) = Len(d1)
                 /\ Len(m.properties[k2]) = Len(d2)
                 /\ m.properties[k1][i] = m.properties[k2][j]

\* the handle_microformat calls made for root element e by the scan of
\* call number c
Constructions(c, e) ==
  Count(trace.calls, LAMBDA x : x.el = e /\ x.caller = c)

CategoriesDeclared(e) ==
  Cardinality({i \in 1..Len(Categories) :
                 mf2_names(Attrs(e).class, Categories[i]) # <<>>})

CarriedDateIsolation ==
  \A j \in 1..Len(trace.dts) :
    None # trace.dts[j].dflt =>
      \E i \in 1..(j - 1) :
        /\ trace.dts[i].call = trace.dts[j].call
        /\ trace.dts[i].new_date = trace.dts[j].dflt

\* C3: a time-only dt-* element is extracted with the date of the latest
\* earlier dt-* element of the same record's scan that supplied a full
\* date, whatever lies between the two.
CarriedDatePersistence ==
  \A j \in 1..Len(trace.dts) :
    \A i \in 1..(j - 1) :
      (/\ trace.dts[i].call = trace.dts[j].call
       /\ None # trace.dts[i].new_date
       /\ None = trace.dts[j].new_date
       /\ \A k \in (i + 1)..(j - 1) :
            trace.dts[k].call = trace.dts[j].call => None = trace.dts[k].new_date)
      => trace.dts[j].dflt = trace.dts[i].new_date


\* the rel tokens of a rel-bearing a/link element
IsAlternate(e) == \E i \in 1..Len(Attrs(e).rel) : Attrs(e).rel[i] = "alternate"

Resolved(e) == urljoin(url, el_get(e, "href", ""))

LocalRels == SelectSeq(RelElements, LAMBDA e : ~IsAlternate(e))

AlternateRels == SelectSeq(RelElements, LAMBDA e : IsAlternate(e))

RelTokens ==
  UNION {{Attrs(LocalRels[i]).rel[j] : j \in 1..Len(Attrs(LocalRels[i]).rel)} :
           i \in 1..Len(LocalRels)}

\* the URL of e once for each time e carries token
UrlsFor(e, token) ==
  [i \in 1..Count(Attrs(e).rel, LAMBDA r : r = token) |-> Resolved(e)]

RECURSIVE ExpectedRel(_, _)
ExpectedRel(token, i) ==
  IF i > Len(LocalRels) THEN <<>>
  ELSE UrlsFor(LocalRels[i], token) \o ExpectedRel(token, i + 1)

RECURSIVE Joined(_, _)
Joined(tokens, i) ==
  IF i > Len(tokens) THEN ""
  ELSE IF i = Len(tokens) THEN tokens[i]
  ELSE tokens[i] \o " " \o Joined(tokens, i + 1)

ExpectedAlternate(e) ==
  LET rest == SelectSeq(Attrs(e).rel, LAMBDA r : r # "alternate")
      Opt(key) == IF None = Attrs(e)[key] THEN <<>> ELSE (key :> Attrs(e)[key])
  IN [url |-> Resolved(e)]
       @@ (IF rest = <<>> THEN <<>> ELSE ("rel" :> Joined(rest, 1)))
       @@ Opt("media") @@ Opt("hreflang") @@ Opt("type")

ExpectedAlternates == [i \in 1..Len(AlternateRels) |-> ExpectedAlternate(AlternateRels[i])]

RECURSIVE Repeat(_, _)
Repeat(seq, k) == IF k = 0 THEN <<>> ELSE seq \o Repeat(seq, k - 1)

\* C8: on each parse an element with "alternate" among its rel tokens adds
\* one entry to alternates (rel: the other tokens joined by spaces, left
\* out when there are none) and nothing to rels; any other rel-bearing
\* a/link element adds its URL to rels[token] once per token and nothing to
\* alternates; the alternates key exists only if such an element was seen.
RelsAndAlternates ==
  /\ DOMAIN parsed.rels = RelTokens
  /\ \A token \in DOMAIN parsed.rels :
       parsed.rels[token] = Repeat(ExpectedRel(token, 1), nparses)
  /\ "alternates" \in DOMAIN parsed <=> AlternateRels # <<>>
  /\ "alternates" \in DOMAIN parsed =>
       parsed.alternates = Repeat(ExpectedAlternates, nparses)

\* parsed a document where one element has "alternate" and other tokens
\* and another element carries one of those tokens without "alternate"
RelsWitness ==
  /\ \E a \in 1..Len(AlternateRels) :
       \E i \in 1..Len(Attrs(AlternateRels[a]).rel) :
         /\ Attrs(AlternateRels[a]).rel[i] # "alternate"
         /\ Attrs(AlternateRels[a]).rel[i] \in DOMAIN parsed.rels

\* the top-level items whose type contains the token, in their order
ItemsOfType(token) ==
  LET match == SetToSeq({i \in 1..Len(parsed.items) :
                           \E j \in 1..Len(parsed.items[i].type) :
                             parsed.items[i].type[j] = token})
  IN [k \in 1..Len(match) |-> parsed.items[match[k]]]

ReparseIdempotent ==
  parsed = parse([items |-> <<>>, rels |-> <<>>]).parsed

====
